---- MODULE Spec2Model ----
(***************************************************************************)
(* A model of code-atlas: the incremental scanner (scanner.py), the rule   *)
(* engine (rules.py) and the watch loop (cli.py).                          *)
(*                                                                         *)
(* Spec       the scan entry point scan_directory(root, output, ...) run   *)
(*            repeatedly against one root from one working directory,      *)
(*            with the source tree and ./code_index.json edited between    *)
(*            the runs.                                                    *)
(* SpecRules  RuleEngine.evaluate applied to one config and one file       *)
(*            record, both drawn from bounded sets.                        *)
(* SpecFile   ASTScanner.scan_file applied to one source, whose path,      *)
(*            syntax tree and raw metrics, and the files that exist next   *)
(*            to it, are drawn from bounded sets.                          *)
(* SpecWatch  the watch command of cli.py: the loop of the main thread     *)
(*            and the observer thread that delivers the change events.     *)
(*                                                                         *)
(* A scan is sequential code with no yield point, so it is one action; the *)
(* loop over the discovered files is the recursive operator ScanLoop and   *)
(* the per-run observations (which files were scanned, reused, dropped)    *)
(* are kept in the run record lastRun.                                     *)
(*                                                                         *)
(* Not modelled: the git metadata block of a file record, end_lineno,      *)
(* docstring and bases of an entity, and the root, timestamp and version   *)
(* of an index.                                                            *)
(***************************************************************************)
EXTENDS Integers, Sequences, FiniteSets, TLC

VARIABLES root, disk, fcache, indexFile, lastRun, nScans, nEdits,
          config, file_data, evalResult,
          source, scanPath, otherFiles, fileScan,
          watchArgs, loop, pending_rescan, since_scan, observer, unseen

scanVars == <<root, disk, fcache, indexFile, lastRun, nScans, nEdits>>
ruleVars == <<config, file_data, evalResult>>
fileVars == <<source, scanPath, otherFiles, fileScan>>
watchVars == <<watchArgs, loop, pending_rescan, since_scan, observer, unseen>>
vars == <<root, disk, fcache, indexFile, lastRun, nScans, nEdits,
          config, file_data, evalResult, source, scanPath, otherFiles, fileScan,
          watchArgs, loop, pending_rescan, since_scan, observer, unseen>>

(***************************************************************************)
(* Bounds of the model.                                                    *)
(***************************************************************************)
\* scans in one behaviour
MaxScans == 2
\* edits of the tree or of ./code_index.json in one behaviour
MaxEdits == 1

(***************************************************************************)
(* Strings.  A path or a module name is a string; where the code looks     *)
(* into one (substring, suffix, replace, path components) it is taken as   *)
(* the sequence of its characters.                                         *)
(***************************************************************************)
Text(s) ==
  CASE s = "a.py" -> <<"a", ".", "p", "y">>
    [] s = "pkg/mod.py" -> <<"p", "k", "g", "/", "m", "o", "d", ".", "p", "y">>
    [] s = ".venv/x.py" -> <<".", "v", "e", "n", "v", "/", "x", ".", "p", "y">>
    [] s = "pkg.mod" -> <<"p", "k", "g", ".", "m", "o", "d">>
    [] s = "mod" -> <<"m", "o", "d">>
    [] s = "os" -> <<"o", "s">>
    [] s = ".py" -> <<".", "p", "y">>
    [] s = "proj" -> <<"p", "r", "o", "j">>
    [] s = ".venv" -> <<".", "v", "e", "n", "v">>
    [] s = "venv" -> <<"v", "e", "n", "v">>
    [] s = "__pycache__" -> <<"_", "_", "p", "y", "c", "a", "c", "h", "e", "_", "_">>
    [] s = ".git" -> <<".", "g", "i", "t">>
    [] s = "node_modules" -> <<"n", "o", "d", "e", "_", "m", "o", "d", "u", "l", "e", "s">>
    [] s = ".pytest_cache" -> <<".", "p", "y", "t", "e", "s", "t", "_", "c", "a", "c", "h", "e">>
    [] s = ".mypy_cache" -> <<".", "m", "y", "p", "y", "_", "c", "a", "c", "h", "e">>
    [] s = "README.md" -> <<"R", "E", "A", "D", "M", "E", ".", "m", "d">>
    [] s = "src/" -> <<"s", "r", "c", "/">>
    [] s = "tests/test_" -> <<"t", "e", "s", "t", "s", "/", "t", "e", "s", "t", "_">>
    [] s = "src/a.py" -> <<"s", "r", "c", "/", "a", ".", "p", "y">>
    [] s = "mysrc/a.py" -> <<"m", "y", "s", "r", "c", "/", "a", ".", "p", "y">>
    [] s = "tests/test_a.py" ->
         <<"t", "e", "s", "t", "s", "/", "t", "e", "s", "t", "_", "a", ".", "p", "y">>
    [] s = "mytests/test_a.py" ->
         <<"m", "y", "t", "e", "s", "t", "s", "/", "t", "e", "s", "t", "_", "a", ".", "p", "y">>

\* t in p
IsSubstring(t, p) ==
  \E i \in 1..(Len(p) - Len(t) + 1) : SubSeq(p, i, i + Len(t) - 1) = t

\* p.endswith(t)
EndsWith(p, t) ==
  Len(t) <= Len(p) /\ SubSeq(p, Len(p) - Len(t) + 1, Len(p)) = t

\* t.replace(old, new) for single characters
Replace(t, old, new) == [i \in 1..Len(t) |-> IF t[i] = old THEN new ELSE t[i]]

\* t.replace(old, new): every occurrence of old, found from the left and not
\* overlapping, gives way to new (old is not empty).
RECURSIVE ReplaceStr(_, _, _)
ReplaceStr(t, old, new) ==
  IF Len(t) < Len(old) THEN t
  ELSE IF SubSeq(t, 1, Len(old)) = old
       THEN new \o ReplaceStr(SubSeq(t, Len(old) + 1, Len(t)), old, new)
       ELSE <<Head(t)>> \o ReplaceStr(Tail(t), old, new)

\* The components of a relative path, as the names between the separators;
\* a name is kept as the sequence of its characters.
RECURSIVE Components(_, _)
Components(chars, current) ==
  IF chars = <<>> THEN <<current>>
  ELSE IF Head(chars) = "/" THEN <<current>> \o Components(Tail(chars), <<>>)
  ELSE Components(Tail(chars), Append(current, Head(chars)))

(***************************************************************************)
(* The source tree.  AllPaths is the order in which root.rglob("*.py")     *)
(* yields the files; a source is named by its content.  The file under     *)
(* .venv belongs to no project and is never edited.                        *)
(***************************************************************************)
AllPaths == <<".venv/x.py", "a.py", "pkg/mod.py">>
Paths == {AllPaths[i] : i \in 1..Len(AllPaths)}
ProjectPaths == {"a.py", "pkg/mod.py"}
Absent == "absent"
Sources == {"ok1", "ok2", "bad"}

ZeroRaw == [loc |-> 0, sloc |-> 0, comments |-> 0, multi |-> 0, blank |-> 0]

\* Nodes of a syntax tree: a class or function definition with its body, an
\* import statement with the module names it gives (alias.name of an import,
\* node.module of a from-import: none for "from . import x").
Def(type, name, lineno, body) ==
  [type |-> type, name |-> name, lineno |-> lineno, body |-> body, names |-> <<>>]
Import(names, lineno) ==
  [type |-> "import", name |-> "", lineno |-> lineno, body |-> <<>>, names |-> names]
ImportFrom(names, lineno) ==
  [type |-> "importfrom", name |-> "", lineno |-> lineno, body |-> <<>>, names |-> names]

\* def foo():                     (line 1)
\*     import os
\*     from pkg.mod import Bar
AstOk1 ==
  <<Def("function", "foo", 1, <<Import(<<"os">>, 2), ImportFrom(<<"pkg.mod">>, 3)>>)>>

\* import mod                     (line 1)
\* class Bar:                     (line 3)
\*     def run(self):             (line 4)
\*         def helper(): ...      (line 5)
\* def foo(): ...                 (line 9)
AstOk2 ==
  <<Import(<<"mod">>, 1),
    Def("class", "Bar", 3,
        <<Def("function", "run", 4, <<Def("function", "helper", 5, <<>>)>>)>>),
    Def("function", "foo", 9, <<>>)>>

NoError == "none"
NoDeep == "none"

\* What ast.parse and radon make of each source text; error is the text of
\* the exception when the file cannot be read or parsed.
SourceTable ==
  [ok1 |-> [valid |-> TRUE, error |-> NoError,
            ast |-> AstOk1,
            complexity |-> <<[function |-> "foo", complexity |-> 4, lineno |-> 1]>>,
            raw |-> [loc |-> 10, sloc |-> 6, comments |-> 2, multi |-> 0, blank |-> 2]],
   ok2 |-> [valid |-> TRUE, error |-> NoError,
            ast |-> AstOk2,
            complexity |-> <<[function |-> "foo", complexity |-> 12, lineno |-> 9]>>,
            raw |-> [loc |-> 16, sloc |-> 12, comments |-> 1, multi |-> 0, blank |-> 3]],
   bad |-> [valid |-> FALSE, error |-> "SyntaxError",
            ast |-> <<>>, complexity |-> <<>>, raw |-> ZeroRaw]]

\* ast.walk: the nodes breadth first (a queue; the children of a node are put
\* at its end).
RECURSIVE Walk(_)
Walk(queue) ==
  IF queue = <<>> THEN <<>>
  ELSE <<Head(queue)>> \o Walk(Tail(queue) \o Head(queue).body)

IsFunctionDef(node) == node.type \in {"function", "async_function"}

\* [m.name for m in node.body if isinstance(m, (FunctionDef, AsyncFunctionDef))]
RECURSIVE MethodNames(_)
MethodNames(body) ==
  IF body = <<>> THEN <<>>
  ELSE (IF IsFunctionDef(Head(body)) THEN <<Head(body).name>> ELSE <<>>)
       \o MethodNames(Tail(body))

\* Lines 38-60: the entity of one class or function node.
Entity(node) ==
  IF node.type = "class"
  THEN [type |-> "class", name |-> node.name, lineno |-> node.lineno,
        methods |-> MethodNames(node.body)]
  ELSE [type |-> node.type, name |-> node.name, lineno |-> node.lineno]

RECURSIVE EntitiesOf(_)
EntitiesOf(nodes) ==
  IF nodes = <<>> THEN <<>>
  ELSE (IF Head(nodes).type = "class" \/ IsFunctionDef(Head(nodes))
        THEN <<Entity(Head(nodes))>> ELSE <<>>)
       \o EntitiesOf(Tail(nodes))

\* extract_entities, lines 23-62: one entity per class or function node that
\* ast.walk yields, wherever the node is in the tree.
extract_entities(tree) == EntitiesOf(Walk(tree))

\* round(x, 3) of x = num / den cut to whole thousandths.
Round3_Floor(num, den) == (num * 1000) \div den

\* round(x, 3) of x = num / den, in thousandths.  A tie goes to the even
\* thousandth when x is a binary fraction (as every tie with den <= 16 is);
\* other ties follow the double nearest to x and are not met in this model.
Round3(num, den) ==
  LET n == num * 1000
      q == n \div den
      r == n % den
  IN IF 2 * r < den THEN q
     ELSE IF 2 * r > den THEN q + 1
     ELSE IF q % 2 = 0 THEN q ELSE q + 1

\* The paths scan_file is given in SpecFile, and the files that may exist
\* next to the scanned one.
ScanPaths == {"a.py", "src/a.py", "mysrc/a.py"}
TestFiles == {"tests/test_a.py", "mytests/test_a.py"}

\* Line 235: str(path).replace("src/", "tests/test_").replace("\\", "/")
test_path(path) ==
  Replace(ReplaceStr(Text(path), Text("src/"), Text("tests/test_")), "\\", "/")

\* test_path of every path of the model.
TestPaths == [p \in Paths \cup ScanPaths |-> test_path(p)]

\* Lines 235-236: Path(test_path).exists(), files being the files that exist.
\* No root of the model has "src/" in it, so the replacement acts on the path
\* below the root, and the result is looked up among the files below it.
has_tests(path, files) ==
  \E f \in files : Text(f) = TestPaths[path]

\* Lines 226-268: the record scan_file makes of a source that was read as s
\* while the files of the set files exist; comment_ratio in thousandths.
\* The two except branches give the same record but for the text of error.
scan_source(path, s, files) ==
     IF s.valid
     THEN [path |-> path,
           entities |-> extract_entities(s.ast),
           complexity |-> s.complexity,
           raw |-> s.raw,
           comment_ratio |-> IF s.raw.loc > 0
                             THEN Round3(s.raw.comments, s.raw.loc) ELSE 0,
           has_tests |-> has_tests(path, files),
           error |-> NoError,
           deep |-> NoDeep]
     ELSE [path |-> path,
           entities |-> <<>>,
           complexity |-> <<>>,
           raw |-> ZeroRaw,
           comment_ratio |-> 0,
           has_tests |-> FALSE,
           error |-> s.error,
           deep |-> NoDeep]

\* ASTScanner.scan_file, lines 213-268.
scan_file(path, tree) ==
  scan_source(path, SourceTable[tree[path]], {p \in Paths : tree[p] # Absent})

\* ASTScanner._deep_analysis: the deep block of one file (never raises).
deep_analysis(path, tree) == <<"deep", tree[path]>>

(***************************************************************************)
(* The change cache (code_atlas.cache.FileCache): a path-keyed fingerprint *)
(* store.  The fingerprint of a file is its content.                       *)
(***************************************************************************)
NoFingerprint == "nofp"
EmptyCache == [p \in Paths |-> NoFingerprint]

is_unchanged(cache, path, tree) == cache[path] = tree[path]

update_file(cache, path, tree) == [cache EXCEPT ![path] = tree[path]]

cleanup(cache, existing_paths) ==
  [p \in Paths |-> IF p \in existing_paths THEN cache[p] ELSE NoFingerprint]

(***************************************************************************)
(* ./code_index.json, the index a previous run may have left in the        *)
(* working directory.                                                      *)
(***************************************************************************)
NoIndex == [kind |-> "missing", files |-> <<>>]
ValidIndex(files) == [kind |-> "valid", files |-> files]
\* unreadable: read_text raises OSError; notjson: json.loads raises
\* JSONDecodeError; undecodable: read_text raises UnicodeDecodeError;
\* nonobject: the top level is a JSON array; nopath: a file entry has no "path".
CaughtKinds == {"unreadable", "notjson"}
UncaughtKinds == {"undecodable", "nonobject", "nopath"}
InvalidKinds == CaughtKinds \cup UncaughtKinds

RECURSIVE PathsOf(_)
PathsOf(files) ==
  IF files = <<>> THEN {} ELSE {Head(files).path} \cup PathsOf(Tail(files))

\* {f["path"]: f for f in existing_data.get("files", [])}: a later entry wins.
ExistingFiles(files) ==
  [p \in PathsOf(files) |->
     LET last == CHOOSE i \in 1..Len(files) :
                   /\ files[i].path = p
                   /\ \A j \in (i+1)..Len(files) : files[j].path # p
     IN files[last]]

\* Lines 385-397: what loading the previous index gives.
LoadRaises(index) == index.kind \in UncaughtKinds
LoadExisting(index) ==
  IF index.kind = "valid" THEN ExistingFiles(index.files) ELSE <<>>

(***************************************************************************)
(* ASTScanner.scan_directory.                                              *)
(*                                                                         *)
(* A progress callback is the caller's code: it returns or it raises, per  *)
(* file.  progress_callback.raises is the set of files it raises on.       *)
(***************************************************************************)
NoCallback == [given |-> FALSE, raises |-> {}]
Callbacks ==
  {NoCallback} \cup {[given |-> TRUE, raises |-> S] : S \in SUBSET ProjectPaths}

\* The root a scanner is made for: the components of the path given as root
\* (none for "."), and whether it is the working directory of the process.
Roots ==
  { [parts |-> <<>>, is_cwd |-> TRUE],
    [parts |-> <<"proj">>, is_cwd |-> FALSE],
    [parts |-> <<"venv", "proj">>, is_cwd |-> FALSE] }

ignore_patterns ==
  {".venv", "venv", "__pycache__", ".git", "node_modules", ".pytest_cache", ".mypy_cache"}

\* f.parts of a file rglob yields: the components of the root, then those of
\* the path below it.
Parts(self_root, path) ==
  [i \in 1..Len(self_root.parts) |-> Text(self_root.parts[i])]
    \o Components(Text(path), <<>>)

\* Line 402: any(ignored in f.parts for ignored in ignore_patterns)
Ignored(self_root, path) ==
  \E ignored \in ignore_patterns :
    \E i \in 1..Len(Parts(self_root, path)) :
      Parts(self_root, path)[i] = Text(ignored)

\* The paths the filter of line 402 removes, for each root.
IgnoredFiles == [r \in Roots |-> {p \in Paths : Ignored(r, p)}]

\* Lines 399-403: the .py files under the root, in rglob order, without those
\* that have an ignored name among their parts.
Discover(self_root, tree) ==
  SelectSeq(AllPaths,
            LAMBDA p : tree[p] # Absent /\ p \notin IgnoredFiles[self_root])

\* Lines 380-383: the locals of one run before the loop.
StartAcc(cache) ==
  [files |-> <<>>, scanned |-> <<>>, skipped |-> <<>>, dropped |-> <<>>,
   updated |-> {}, cache |-> cache, ops |-> <<>>]

\* A call the scanner makes on the cache that writes: ops keeps them in order.
CacheOp(op, path) == [op |-> op, path |-> path]

\* ProcessFile with the fall-back forgotten: an unchanged file that the
\* previous index does not hold is skipped instead of scanned again.
ProcessFile_NoFallback(acc, py_file, incremental, deep, progress_callback, existing_files, tree) ==
  IF progress_callback.given /\ py_file \in progress_callback.raises
  THEN [acc EXCEPT !.dropped = Append(@, py_file)]
  ELSE IF incremental /\ is_unchanged(acc.cache, py_file, tree)
  THEN IF py_file \in DOMAIN existing_files
       THEN [acc EXCEPT !.files = Append(@, existing_files[py_file]),
                        !.skipped = Append(@, py_file)]
       ELSE [acc EXCEPT !.skipped = Append(@, py_file)]
  ELSE LET scanned == scan_file(py_file, tree)
           data == IF deep
                   THEN [scanned EXCEPT !.deep = deep_analysis(py_file, tree)]
                   ELSE scanned
       IN [acc EXCEPT !.files = Append(@, data),
                      !.scanned = Append(@, py_file),
                      !.updated = IF incremental THEN @ \cup {py_file} ELSE @,
                      !.ops = IF incremental
                              THEN Append(@, CacheOp("update_file", py_file)) ELSE @,
                      !.cache = IF incremental
                                THEN update_file(@, py_file, tree) ELSE @]

\* Lines 407-437: the loop body for one file.  The whole body is inside
\* try / except Exception: continue, so a raising callback ends the
\* iteration before anything is appended.
ProcessFile(acc, py_file, incremental, deep, progress_callback, existing_files, tree) ==
  IF progress_callback.given /\ py_file \in progress_callback.raises
  THEN [acc EXCEPT !.dropped = Append(@, py_file)]
  ELSE IF /\ incremental
          /\ is_unchanged(acc.cache, py_file, tree)
          /\ py_file \in DOMAIN existing_files
  THEN [acc EXCEPT !.files = Append(@, existing_files[py_file]),
                   !.skipped = Append(@, py_file)]
  ELSE LET scanned == scan_file(py_file, tree)
           data == IF deep
                   THEN [scanned EXCEPT !.deep = deep_analysis(py_file, tree)]
                   ELSE scanned
       IN [acc EXCEPT !.files = Append(@, data),
                      !.scanned = Append(@, py_file),
                      !.updated = IF incremental THEN @ \cup {py_file} ELSE @,
                      !.ops = IF incremental
                              THEN Append(@, CacheOp("update_file", py_file)) ELSE @,
                      !.cache = IF incremental
                                THEN update_file(@, py_file, tree) ELSE @]

RECURSIVE ScanLoop(_, _, _, _, _, _, _)
ScanLoop(acc, todo, incremental, deep, progress_callback, existing_files, tree) ==
  IF todo = <<>> THEN acc
  ELSE ScanLoop(ProcessFile(acc, Head(todo), incremental, deep,
                            progress_callback, existing_files, tree),
                Tail(todo), incremental, deep, progress_callback,
                existing_files, tree)

\* The cache saved as it is after the loop, stale entries included.
SaveCache_NoCleanup(cache, tree) == cache

\* Lines 439-444: cleanup of stale entries, then the one save of the run;
\* the store that save() persists.
SaveCache(cache, tree) == cleanup(cache, {p \in Paths : tree[p] # Absent})

\* Lines 443-444: the two calls after the loop.
SaveOps == <<CacheOp("cleanup", ""), CacheOp("save", "")>>

(***************************************************************************)
(* build_dependency_graph, lines 151-199.  A record's path is relative to  *)
(* the root, and Path(file_path).read_text() of the first pass opens it    *)
(* relative to the working directory: cwd_tree is what the process finds   *)
(* at each such path.                                                      *)
(***************************************************************************)
CwdTree(self_root, tree) ==
  [p \in Paths |-> IF self_root.is_cwd THEN tree[p] ELSE Absent]

\* Lines 172-178: the module names of the import nodes that ast.walk yields.
RECURSIVE ImportsOf(_)
ImportsOf(nodes) ==
  IF nodes = <<>> THEN <<>>
  ELSE (IF Head(nodes).type \in {"import", "importfrom"}
        THEN Head(nodes).names ELSE <<>>)
       \o ImportsOf(Tail(nodes))

\* Lines 166-182: the imports of one file; a file that cannot be read or
\* parsed gives none (except Exception: pass).
ParseImports(file_path, cwd_tree) ==
  LET content == cwd_tree[file_path]
  IN IF content = Absent \/ ~SourceTable[content].valid THEN <<>>
     ELSE ImportsOf(Walk(SourceTable[content].ast))

\* The keys of a dict filled in the order of a list: first occurrences.
RECURSIVE KeyOrder(_, _)
KeyOrder(paths, seen) ==
  IF paths = <<>> THEN <<>>
  ELSE IF Head(paths) \in seen THEN KeyOrder(Tail(paths), seen)
  ELSE <<Head(paths)>> \o KeyOrder(Tail(paths), seen \cup {Head(paths)})

\* The match with every module a suffix of every path.
Resolves_Always(imported_module, other_path) == TRUE

\* Line 196: imported_module in other_path
\*           or other_path.endswith(imported_module.replace(".", "/") + ".py")
Resolves(imported_module, other_path) ==
  \/ IsSubstring(Text(imported_module), Text(other_path))
  \/ EndsWith(Text(other_path),
              Replace(Text(imported_module), ".", "/") \o Text(".py"))

\* Lines 192-197 for one importing file and one other path: file_path is
\* appended once per import of it that matches.
RECURSIVE AppendsOf(_, _, _)
AppendsOf(file_path, imports, other_path) ==
  IF imports = <<>> THEN <<>>
  ELSE (IF Resolves(Head(imports), other_path) THEN <<file_path>> ELSE <<>>)
       \o AppendsOf(file_path, Tail(imports), other_path)

RECURSIVE ImportedBy(_, _, _)
ImportedBy(keys, imports_map, other_path) ==
  IF keys = <<>> THEN <<>>
  ELSE AppendsOf(Head(keys), imports_map[Head(keys)], other_path)
       \o ImportedBy(Tail(keys), imports_map, other_path)

build_dependency_graph(files_data, cwd_tree) ==
  LET keys == KeyOrder([i \in 1..Len(files_data) |-> files_data[i].path], {})
      imports_map == [p \in {keys[i] : i \in 1..Len(keys)} |-> ParseImports(p, cwd_tree)]
  IN [p \in DOMAIN imports_map |->
        [imports |-> imports_map[p],
         imported_by |-> ImportedBy(keys, imports_map, p)]]

(***************************************************************************)
(* The symbol index, lines 449-453.                                        *)
(***************************************************************************)
\* f"{path}:{lineno}"
Location(path, lineno) == [path |-> path, lineno |-> lineno]

\* The entities of one file put into the index with the first writer of a
\* name kept.
RECURSIVE IndexEntities_FirstWins(_, _, _)
IndexEntities_FirstWins(symbol_index, path, entities) ==
  IF entities = <<>> THEN symbol_index
  ELSE IndexEntities_FirstWins(symbol_index @@
                                 (Head(entities).name :> Location(path, Head(entities).lineno)),
                               path, Tail(entities))

\* The entities of one file written into the index, in their order.
RECURSIVE IndexEntities(_, _, _)
IndexEntities(symbol_index, path, entities) ==
  IF entities = <<>> THEN symbol_index
  ELSE IndexEntities((Head(entities).name :> Location(path, Head(entities).lineno))
                       @@ symbol_index,
                     path, Tail(entities))

RECURSIVE BuildSymbolIndex(_, _)
BuildSymbolIndex(symbol_index, files) ==
  IF files = <<>> THEN symbol_index
  ELSE BuildSymbolIndex(IndexEntities(symbol_index, Head(files).path,
                                      Head(files).entities),
                        Tail(files))

\* The index with a dependency entry only for the files the first pass of
\* build_dependency_graph could read.
Index_ReadableDependencies(files, cwd_tree) ==
  [total_files |-> Len(files),
   files |-> files,
   dependencies |-> build_dependency_graph(
                      SelectSeq(files, LAMBDA f : cwd_tree[f.path] # Absent),
                      cwd_tree),
   symbol_index |-> BuildSymbolIndex(<<>>, files)]

\* Lines 455-463: the index of a run (without root, timestamp and version).
Index(files, cwd_tree) ==
  [total_files |-> Len(files),
   files |-> files,
   dependencies |-> build_dependency_graph(files, cwd_tree),
   symbol_index |-> BuildSymbolIndex(<<>>, files)]

NoResult ==
  [total_files |-> 0, files |-> <<>>, dependencies |-> <<>>, symbol_index |-> <<>>]

\* Lines 362-465: one run.  An index that cannot be loaded and is not caught
\* (LoadRaises) ends the run before the loop with the exception.
ASTScanner_scan_directory(self_root, incremental, deep, progress_callback, tree, cache, index) ==
  LET raised == incremental /\ LoadRaises(index)
      existing_files == IF incremental THEN LoadExisting(index) ELSE <<>>
      acc == IF raised THEN StartAcc(cache)
             ELSE ScanLoop(StartAcc(cache), Discover(self_root, tree), incremental, deep,
                           progress_callback, existing_files, tree)
  IN [done |-> TRUE,
      index |-> IF raised THEN NoResult
                ELSE Index(acc.files, CwdTree(self_root, tree)),
      incremental |-> incremental,
      deep |-> deep,
      progress_callback |-> progress_callback,
      raised |-> raised,
      discovered |-> Discover(self_root, tree),
      tree |-> tree,
      cache0 |-> cache,
      index0 |-> index.kind,
      existing0 |-> IF incremental /\ ~raised THEN DOMAIN existing_files ELSE {},
      files |-> acc.files,
      scanned |-> acc.scanned,
      skipped |-> acc.skipped,
      dropped |-> acc.dropped,
      updated |-> acc.updated,
      ops |-> IF incremental /\ ~raised THEN acc.ops \o SaveOps ELSE <<>>,
      cache |-> IF incremental /\ ~raised THEN SaveCache(acc.cache, tree) ELSE cache,
      output |-> "none"]

NoRun ==
  [done |-> FALSE, index |-> NoResult, incremental |-> FALSE, deep |-> FALSE,
   progress_callback |-> NoCallback, raised |-> FALSE, discovered |-> <<>>,
   tree |-> [p \in Paths |-> Absent], cache0 |-> EmptyCache, index0 |-> "missing",
   existing0 |-> {}, files |-> <<>>, scanned |-> <<>>, skipped |-> <<>>,
   dropped |-> <<>>, updated |-> {}, ops |-> <<>>, cache |-> EmptyCache,
   output |-> "none"]

\* The output paths a caller may choose: the default, which is the file the
\* scanner reads back, and any other.
OutputPaths == {"code_index.json", "out.json"}

(***************************************************************************)
(* The rule engine (rules.py).                                             *)
(*                                                                         *)
(* A condition is a Python expression, held here as its syntax tree; eval  *)
(* with no builtins and the six-name context is the recursive operator     *)
(* Eval.  A number is the fraction n / d with d > 0 (a mean complexity is  *)
(* total / len, a comment ratio is a count of thousandths); a bool is the  *)
(* number 0 or 1, as in Python.                                            *)
(***************************************************************************)
\* rule entries in the actions list of a config
MaxRules == 2

Num(n, d) == [t |-> "num", n |-> n, d |-> d]
Bool(b) == [t |-> "bool", n |-> IF b THEN 1 ELSE 0, d |-> 1]
StrVal == [t |-> "str", n |-> 0, d |-> 1]
\* a bound method of a number, not yet called
Method(v) == [t |-> "method", n |-> v.n, d |-> v.d]
\* the evaluation raised
Raised == [t |-> "raised", n |-> 0, d |-> 1]

IsNumber(v) == v.t \in {"num", "bool"}

\* bool(v)
Truthy(v) == IF IsNumber(v) THEN v.n # 0 ELSE TRUE

NumLess(a, b) == a.n * b.d < b.n * a.d
NumEqual(a, b) == a.n * b.d = b.n * a.d
NumGreater_OrEqual(a, b) == a.n * b.d >= b.n * a.d
NumGreater(a, b) == a.n * b.d > b.n * a.d

\* a comparison of two values: ordering needs two numbers (TypeError
\* otherwise), == of values of different types is False
Compare(op, a, b) ==
  IF IsNumber(a) /\ IsNumber(b)
  THEN Bool(CASE op = ">" -> NumGreater(a, b)
              [] op = "<" -> NumLess(a, b)
              [] op = ">=" -> NumGreater(a, b) \/ NumEqual(a, b)
              [] op = "<=" -> NumLess(a, b) \/ NumEqual(a, b)
              [] op = "==" -> NumEqual(a, b))
  ELSE IF op = "==" THEN Bool(a = b)
  ELSE Raised

\* + - * / of two values: numbers only here (TypeError otherwise), and
\* division by zero raises
Arith(op, a, b) ==
  IF ~(IsNumber(a) /\ IsNumber(b)) THEN Raised
  ELSE CASE op = "+" -> Num(a.n * b.d + b.n * a.d, a.d * b.d)
         [] op = "-" -> Num(a.n * b.d - b.n * a.d, a.d * b.d)
         [] op = "*" -> Num(a.n * b.n, a.d * b.d)
         [] op = "/" -> IF b.n = 0 THEN Raised
                        ELSE IF b.n > 0 THEN Num(a.n * b.d, a.d * b.n)
                        ELSE Num(0 - a.n * b.d, 0 - a.d * b.n)

\* obj.name on a value: the attributes of Python's numbers that are used
\* here are .real (the number) and .conjugate (a method returning it)
GetAttr(v, name) ==
  IF IsNumber(v) /\ name = "real" THEN Num(v.n, v.d)
  ELSE IF IsNumber(v) /\ name = "conjugate" THEN Method(v)
  ELSE Raised

\* f() on a value: a bound method runs, anything else is not callable
CallValue(v) == IF v.t = "method" THEN Num(v.n, v.d) ELSE Raised

\* eval(condition, {"__builtins__": {}}, context), line 81.  A name is looked
\* up in the context only (there are no builtins); and / or short-circuit.
RECURSIVE Eval(_, _)
Eval(e, context) ==
  CASE e.k = "num" -> Num(e.n, e.d)
    [] e.k = "str" -> StrVal
    [] e.k = "name" -> IF e.id \in DOMAIN context THEN context[e.id] ELSE Raised
    [] e.k = "cmp" ->
         LET a == Eval(e.l, context)
         IN IF a.t = "raised" THEN Raised
            ELSE LET b == Eval(e.r, context)
                 IN IF b.t = "raised" THEN Raised ELSE Compare(e.op, a, b)
    [] e.k = "bin" ->
         LET a == Eval(e.l, context)
         IN IF a.t = "raised" THEN Raised
            ELSE LET b == Eval(e.r, context)
                 IN IF b.t = "raised" THEN Raised ELSE Arith(e.op, a, b)
    [] e.k = "or" ->
         LET a == Eval(e.l, context)
         IN IF a.t = "raised" THEN Raised
            ELSE IF Truthy(a) THEN a ELSE Eval(e.r, context)
    [] e.k = "and" ->
         LET a == Eval(e.l, context)
         IN IF a.t = "raised" THEN Raised
            ELSE IF ~Truthy(a) THEN a ELSE Eval(e.r, context)
    [] e.k = "attr" ->
         LET a == Eval(e.l, context)
         IN IF a.t = "raised" THEN Raised ELSE GetAttr(a, e.id)
    [] e.k = "call" ->
         LET a == Eval(e.l, context)
         IN IF a.t = "raised" THEN Raised ELSE CallValue(a)
    \* text that is no expression (SyntaxError), or a condition that is no
    \* string (TypeError)
    [] e.k \in {"malformed", "nonstring"} -> Raised

\* d.get(key, default) of a mapping
Get(d, key, default) == IF key \in DOMAIN d THEN d[key] ELSE default

RECURSIVE SumComplexity(_)
SumComplexity(complexity_list) ==
  IF complexity_list = <<>> THEN 0
  ELSE Get(Head(complexity_list), "complexity", 0) + SumComplexity(Tail(complexity_list))

\* _get_avg_complexity returning the total of the values, not their mean.
get_avg_complexity_Total(fd) ==
  LET complexity_list == Get(fd, "complexity", <<>>)
  IN IF complexity_list = <<>> THEN Num(0, 1)
     ELSE Num(SumComplexity(complexity_list), 1)

\* RuleEngine._get_avg_complexity, lines 86-100
get_avg_complexity(fd) ==
  LET complexity_list == Get(fd, "complexity", <<>>)
  IN IF complexity_list = <<>> THEN Num(0, 1)
     ELSE Num(SumComplexity(complexity_list), Len(complexity_list))

NoMetrics == [x \in {} |-> Num(0, 1)]

\* a YAML value that is a mapping (a rule entry, a metrics block); a value
\* that is none (a scalar, null) is held as [scalar |-> ...]
IsMapping(action) == "scalar" \notin DOMAIN action

\* Lines 71-78: the evaluation context of one file
Context(fd, metrics) ==
  [complexity |-> get_avg_complexity(fd),
   loc |-> Num(Get(Get(fd, "raw", [x \in {} |-> 0]), "loc", 0), 1),
   comment_ratio |-> Num(Get(fd, "comment_ratio", 0), 1000),
   max_complexity |-> Get(metrics, "max_complexity", Num(10, 1)),
   max_loc |-> Get(metrics, "max_loc", Num(500, 1)),
   min_comment_ratio |-> Get(metrics, "min_comment_ratio", Num(1, 10))]

\* Building the context raises when the metrics block is no mapping
\* (metrics.get on None: AttributeError), inside the try of line 69.
ContextRaises(fd, metrics) == ~IsMapping(metrics)

\* The value of a condition for a file: Raised when the context cannot be
\* built or the evaluation raises.
ConditionValue(condition, fd, metrics) ==
  IF ContextRaises(fd, metrics) THEN Raised
  ELSE Eval(condition, Context(fd, metrics))

\* _check_condition with the try / except left out: the error of the
\* evaluation leaves the method.
check_condition_Uncaught(condition, fd, metrics) ==
  LET v == ConditionValue(condition, fd, metrics)
  IN IF v.t = "raised" THEN "raise"
     ELSE IF Truthy(v) THEN "true" ELSE "false"

\* RuleEngine._check_condition, lines 53-84: "true" or "false"; any
\* exception of the evaluation is caught and gives "false".
check_condition(condition, fd, metrics) ==
  LET v == ConditionValue(condition, fd, metrics)
  IN IF v.t = "raised" THEN "false"
     ELSE IF Truthy(v) THEN "true" ELSE "false"

MalformedCondition == [k |-> "malformed"]

\* Lines 42-49: the violation of one rule on one file
Violation(action, fd) ==
  [id |-> Get(action, "id", "UNKNOWN"),
   message |-> Get(action, "message", ""),
   action |-> Get(action, "action", ""),
   file |-> Get(fd, "path", "")]

StartEval == [state |-> "running", issues |-> <<>>, trace |-> <<>>]

\* The loop body with the violation put in front of the list.
EvaluateRule_Prepends(acc, action, fd, metrics) ==
  IF ~IsMapping(action)
  THEN [acc EXCEPT !.state = "raised", !.trace = Append(@, "raised")]
  ELSE LET met == check_condition(Get(action, "condition", MalformedCondition),
                                  fd, metrics)
       IN IF met = "raise"
          THEN [acc EXCEPT !.state = "raised", !.trace = Append(@, "raised")]
          ELSE IF met = "true"
          THEN [acc EXCEPT !.issues = <<Violation(action, fd)>> \o @,
                           !.trace = Append(@, "violation")]
          ELSE [acc EXCEPT !.trace = Append(@, "no_violation")]

\* Lines 35-49: the loop body for one entry of actions.  action.get on an
\* entry that is no mapping raises AttributeError, which nothing catches;
\* trace keeps what became of each entry reached.
EvaluateRule(acc, action, fd, metrics) ==
  IF ~IsMapping(action)
  THEN [acc EXCEPT !.state = "raised", !.trace = Append(@, "raised")]
  ELSE LET met == check_condition(Get(action, "condition", MalformedCondition),
                                  fd, metrics)
       IN IF met = "raise"
          THEN [acc EXCEPT !.state = "raised", !.trace = Append(@, "raised")]
          ELSE IF met = "true"
          THEN [acc EXCEPT !.issues = Append(@, Violation(action, fd)),
                           !.trace = Append(@, "violation")]
          ELSE [acc EXCEPT !.trace = Append(@, "no_violation")]

RECURSIVE EvaluateLoop(_, _, _, _)
EvaluateLoop(acc, actions, fd, metrics) ==
  IF actions = <<>> \/ acc.state = "raised" THEN acc
  ELSE EvaluateLoop(EvaluateRule(acc, Head(actions), fd, metrics),
                    Tail(actions), fd, metrics)

\* RuleEngine.evaluate, lines 21-51.  yaml.safe_load gives None for an empty
\* rules file; self.config.get on it raises AttributeError (line 32).
evaluate(cfg, fd) ==
  LET metrics == Get(cfg, "metrics", NoMetrics)
      actions == Get(cfg, "actions", <<>>)
      acc == EvaluateLoop(StartEval, actions, fd, metrics)
  IN IF ~IsMapping(cfg) THEN [StartEval EXCEPT !.state = "raised"]
     ELSE IF acc.state = "raised" THEN acc
     ELSE [acc EXCEPT !.state = "returned"]

(***************************************************************************)
(* Inputs of SpecRules: conditions, rule entries, configs, file records.   *)
(***************************************************************************)
Name(id) == [k |-> "name", id |-> id]
NumLit(n) == [k |-> "num", n |-> n, d |-> 1]
StrLit == [k |-> "str"]
Cmp(op, l, r) == [k |-> "cmp", op |-> op, l |-> l, r |-> r]
Bin(op, l, r) == [k |-> "bin", op |-> op, l |-> l, r |-> r]
Or(l, r) == [k |-> "or", l |-> l, r |-> r]
Attr(l, id) == [k |-> "attr", l |-> l, id |-> id]
Call(l) == [k |-> "call", l |-> l]

BoundNames ==
  {"complexity", "loc", "comment_ratio", "max_complexity", "max_loc", "min_comment_ratio"}

Rule(id, condition) ==
  [id |-> id, condition |-> condition, message |-> "msg " \o id, action |-> "do " \o id]

\* complexity > max_complexity
RuleComplexity == Rule("R1", Cmp(">", Name("complexity"), Name("max_complexity")))

\* complexity == 5
RuleMeanIsFive == Rule("R13", Cmp("==", Name("complexity"), NumLit(5)))

\* loc > max_loc
RuleLoc == Rule("R2", Cmp(">", Name("loc"), Name("max_loc")))

RuleEntries ==
  { RuleComplexity,
    RuleLoc,
    \* comment_ratio < min_comment_ratio
    Rule("R3", Cmp("<", Name("comment_ratio"), Name("min_comment_ratio"))),
    \* undefined_var > 5
    Rule("R4", Cmp(">", Name("undefined_var"), NumLit(5))),
    \* complexity >        (no expression)
    Rule("R5", MalformedCondition),
    \* loc >= 0 or undefined_var
    Rule("R6", Or(Cmp(">=", Name("loc"), NumLit(0)), Name("undefined_var"))),
    \* loc.real > max_loc
    Rule("R7", Cmp(">", Attr(Name("loc"), "real"), Name("max_loc"))),
    \* complexity.conjugate() > max_complexity
    Rule("R8", Cmp(">", Call(Attr(Name("complexity"), "conjugate")), Name("max_complexity"))),
    \* loc + "x" > 0
    Rule("R9", Cmp(">", Bin("+", Name("loc"), StrLit), NumLit(0))),
    \* loc / loc >= 1
    Rule("R10", Cmp(">=", Bin("/", Name("loc"), Name("loc")), NumLit(1))),
    \* abs(loc) > 5
    Rule("R11", Cmp(">", Call(Name("abs")), NumLit(5))),
    \* condition: 5      (a YAML number, no string)
    Rule("R12", [k |-> "nonstring"]),
    RuleMeanIsFive,
    \* an entry with a condition only: loc > max_loc
    [condition |-> Cmp(">", Name("loc"), Name("max_loc"))],
    \* an entry of the list that is a string
    [scalar |-> "R2"] }

ActionLists == UNION {[1..n -> RuleEntries] : n \in 0..MaxRules}

MetricsBlocks ==
  { [max_complexity |-> Num(10, 1)],
    [max_complexity |-> Num(10, 1), max_loc |-> Num(15, 1), min_comment_ratio |-> Num(1, 4)],
    \* max_complexity: "10"
    [max_complexity |-> StrVal],
    \* metrics:        (the key with no value: None)
    [scalar |-> "null"] }

Configs ==
  {[metrics |-> m, actions |-> a] : m \in MetricsBlocks, a \in ActionLists}
  \cup {[actions |-> a] : a \in ActionLists}
  \* an empty rules file: the loaded config is None
  \cup {[scalar |-> "null"]}

ComplexityOf(c) == [function |-> "f", complexity |-> c, lineno |-> 1]
ComplexityLists ==
  { <<>>, <<ComplexityOf(12)>>, <<ComplexityOf(8)>>, <<ComplexityOf(10)>>,
    <<ComplexityOf(4), ComplexityOf(6)>>, <<ComplexityOf(8), ComplexityOf(16)>> }

FileRecords ==
  {[path |-> "a.py", complexity |-> c, raw |-> [ZeroRaw EXCEPT !.loc = l],
    comment_ratio |-> r] :
     c \in ComplexityLists, l \in {0, 600}, r \in {0, 250}}

IdleEval == [state |-> "idle", issues |-> <<>>, trace |-> <<>>]

(***************************************************************************)
(* Inputs of SpecFile: the sources scan_file may be given.  radon counts   *)
(* at most one comment per line, so comments <= loc.                       *)
(***************************************************************************)
\* lines of a source
MaxLoc == 12

RawMetrics ==
  {[loc |-> x[1], sloc |-> x[1] - x[2], comments |-> x[2], multi |-> 0, blank |-> 0] :
     x \in {y \in (0..MaxLoc) \X (0..MaxLoc) : y[2] <= y[1]}}

ParsedSources ==
  {[valid |-> TRUE, error |-> NoError, ast |-> a, complexity |-> <<>>, raw |-> r] :
     a \in {<<>>, AstOk1, AstOk2}, r \in RawMetrics}
  \cup {[valid |-> FALSE, error |-> e, ast |-> <<>>, complexity |-> <<>>, raw |-> ZeroRaw] :
          e \in {"SyntaxError", "UnicodeDecodeError"}}

NotScanned == [done |-> FALSE, data |-> scan_source("a.py", SourceTable["bad"], {})]

(***************************************************************************)
(* Actions of Spec.                                                        *)
(***************************************************************************)
\* scan_directory(root_path, output_path, ...), lines 468-488: the run, then
\* the index written to output_path (not reached when the run raises).
scan_directory(output_path, incremental, deep, progress_callback) ==
  /\ nScans < MaxScans
  /\ LET run == ASTScanner_scan_directory(root, incremental, deep, progress_callback,
                                          disk, fcache, indexFile)
     IN /\ lastRun' = [run EXCEPT !.output = output_path]
        /\ fcache' = run.cache
        /\ indexFile' = IF ~run.raised /\ output_path = "code_index.json"
                        THEN ValidIndex(run.files) ELSE indexFile
  /\ nScans' = nScans + 1
  /\ UNCHANGED <<root, disk, nEdits, ruleVars, fileVars, watchVars>>

\* The user edits, creates or deletes a source file.
EditFile(p, s) ==
  /\ nEdits < MaxEdits
  /\ s # disk[p]
  /\ disk' = [disk EXCEPT ![p] = s]
  /\ nEdits' = nEdits + 1
  /\ UNCHANGED <<root, fcache, indexFile, lastRun, nScans, ruleVars, fileVars, watchVars>>

\* ./code_index.json is removed, or left in a state that is not an index
\* (a truncated write, another program's file of that name).
ClobberIndex(k) ==
  /\ nEdits < MaxEdits
  /\ indexFile.kind # k
  /\ indexFile' = [kind |-> k, files |-> <<>>]
  /\ nEdits' = nEdits + 1
  /\ UNCHANGED <<root, disk, fcache, lastRun, nScans, ruleVars, fileVars, watchVars>>

ScanInit ==
  /\ root \in Roots
  /\ disk = [p \in Paths |->
               CASE p = "a.py" -> "ok1"
                 [] p = "pkg/mod.py" -> "bad"
                 [] OTHER -> "ok2"]
  /\ fcache = EmptyCache
  /\ indexFile = NoIndex
  /\ lastRun = NoRun
  /\ nScans = 0
  /\ nEdits = 0

RulesIdle ==
  /\ config = [actions |-> <<>>]
  /\ file_data = [path |-> "a.py", complexity |-> <<>>, raw |-> ZeroRaw, comment_ratio |-> 0]
  /\ evalResult = IdleEval

FileIdle ==
  /\ source = SourceTable["bad"]
  /\ scanPath = "a.py"
  /\ otherFiles = {}
  /\ fileScan = NotScanned

\* The watch command is not running.
WatchIdle ==
  /\ watchArgs = [output |-> "code_index.json", incremental |-> TRUE, deep |-> FALSE,
                  debounce |-> 0]
  /\ loop = "off"
  /\ pending_rescan = FALSE
  /\ since_scan = 0
  /\ observer = <<>>
  /\ unseen = FALSE

Init == ScanInit /\ RulesIdle /\ FileIdle /\ WatchIdle

Next ==
  \/ \E o \in OutputPaths, i \in BOOLEAN, d \in BOOLEAN, cb \in Callbacks :
       scan_directory(o, i, d, cb)
  \/ \E p \in ProjectPaths, s \in Sources \cup {Absent} : EditFile(p, s)
  \/ \E k \in InvalidKinds \cup {"missing"} : ClobberIndex(k)

Spec == Init /\ [][Next]_vars

(***************************************************************************)
(* SpecRules: one config, one file record, one call of evaluate.           *)
(***************************************************************************)
Evaluate ==
  /\ evalResult.state = "idle"
  /\ evalResult' = evaluate(config, file_data)
  /\ UNCHANGED <<config, file_data, scanVars, fileVars, watchVars>>

RulesInit ==
  /\ config \in Configs
  /\ file_data \in FileRecords
  /\ evalResult = IdleEval

InitRules == ScanInit /\ root.parts = <<>> /\ RulesInit /\ FileIdle /\ WatchIdle

NextRules == Evaluate

SpecRules == InitRules /\ [][NextRules]_vars

(***************************************************************************)
(* SpecFile: one source, one call of scan_file.                            *)
(***************************************************************************)
ScanFile ==
  /\ ~fileScan.done
  /\ fileScan' = [done |-> TRUE,
                   data |-> scan_source(scanPath, source, otherFiles \cup {scanPath})]
  /\ UNCHANGED <<source, scanPath, otherFiles, scanVars, ruleVars, watchVars>>

FileInit ==
  /\ source \in ParsedSources
  /\ scanPath \in ScanPaths
  /\ otherFiles \in SUBSET TestFiles
  /\ fileScan = NotScanned

InitFile == ScanInit /\ root.parts = <<>> /\ RulesIdle /\ FileInit /\ WatchIdle

NextFile == ScanFile

SpecFile == InitFile /\ [][NextFile]_vars

(***************************************************************************)
(* SpecWatch: the watch command, cli.py lines 347-417.                     *)
(*                                                                         *)
(* Two threads share pending_rescan: the observer thread runs a handler of *)
(* PythonFileHandler for each event, the main thread runs the loop.  One   *)
(* iteration of the loop is three steps, since the observer thread runs    *)
(* while the scan does: the test of line 403, the scan of line 409 (taken  *)
(* at the moment it reads the tree), and the two stores of lines 416-417.  *)
(* since_scan is time.time() - last_scan_time in ticks, counted up to the  *)
(* debounce delay.  The loop runs for ever: Ctrl+C is not modelled.        *)
(* unseen records that a .py event was delivered and no rescan has begun   *)
(* since.                                                                  *)
(***************************************************************************)
\* change events in one behaviour
MaxEvents == 2

\* The debounce delays, in ticks.
Debounces == {0, 1}

WatchArgs ==
  [output : OutputPaths, incremental : BOOLEAN, deep : BOOLEAN, debounce : Debounces]

Event(kind, src_path, is_directory) ==
  [kind |-> kind, src_path |-> src_path, is_directory |-> is_directory]

\* The test of on_modified, on_created and on_deleted (lines 357, 364, 371).
IsPythonFile(event) ==
  ~event.is_directory /\ EndsWith(Text(event.src_path), Text(".py"))

\* PythonFileHandler.on_modified, on_created, on_deleted: the three bodies are
\* the same; the value pending_rescan has after the handler.
PythonFileHandler(event, pending) ==
  IF IsPythonFile(event) THEN TRUE ELSE pending

\* The event watchdog makes of a change of the file p from content old to new.
ChangeEvent(p, old, new) ==
  Event(IF old = Absent THEN "created"
        ELSE IF new = Absent THEN "deleted" ELSE "modified", p, FALSE)

\* scan_directory(root_path, output_path, incremental=..., deep=...) of lines
\* 383 and 409: the run and the index written; an exception leaves the loop.
WatchScan(next_loop) ==
  LET run == ASTScanner_scan_directory(root, watchArgs.incremental, watchArgs.deep,
                                       NoCallback, disk, fcache, indexFile)
  IN /\ lastRun' = [run EXCEPT !.output = watchArgs.output]
     /\ fcache' = run.cache
     /\ indexFile' = IF ~run.raised /\ watchArgs.output = "code_index.json"
                     THEN ValidIndex(run.files) ELSE indexFile
     /\ nScans' = nScans + 1
     /\ loop' = IF run.raised THEN "raised" ELSE next_loop

\* Lines 383-393: the initial scan, last_scan_time = time.time(), and the
\* observer started.
InitialScan ==
  /\ loop = "start"
  /\ WatchScan("sleeping")
  /\ since_scan' = 0
  /\ UNCHANGED <<root, disk, nEdits, watchArgs, pending_rescan, observer, unseen,
                 ruleVars, fileVars>>

\* A .py file of the watched tree is edited, created or deleted; once the
\* observer is started it queues the event.
ChangeFile(p, s) ==
  /\ nEdits < MaxEvents
  /\ s # disk[p]
  /\ disk' = [disk EXCEPT ![p] = s]
  /\ nEdits' = nEdits + 1
  /\ observer' = IF loop = "start" THEN observer
                 ELSE Append(observer, ChangeEvent(p, disk[p], s))
  /\ UNCHANGED <<root, fcache, indexFile, lastRun, nScans, watchArgs, loop,
                 pending_rescan, since_scan, unseen, ruleVars, fileVars>>

\* A file of the watched tree that is no .py file is edited.
ChangeOther ==
  /\ nEdits < MaxEvents
  /\ loop # "start"
  /\ nEdits' = nEdits + 1
  /\ observer' = Append(observer, Event("modified", "README.md", FALSE))
  /\ UNCHANGED <<root, disk, fcache, indexFile, lastRun, nScans, watchArgs, loop,
                 pending_rescan, since_scan, unseen, ruleVars, fileVars>>

\* The observer thread delivers its next event to the handler.
Deliver ==
  /\ observer # <<>>
  /\ pending_rescan' = PythonFileHandler(Head(observer), pending_rescan)
  /\ unseen' = (unseen \/ IsPythonFile(Head(observer)))
  /\ observer' = Tail(observer)
  /\ UNCHANGED <<scanVars, watchArgs, loop, since_scan, ruleVars, fileVars>>

\* Time passes.
Tick ==
  /\ loop # "start"
  /\ since_scan < watchArgs.debounce
  /\ since_scan' = since_scan + 1
  /\ UNCHANGED <<scanVars, watchArgs, loop, pending_rescan, observer, unseen,
                 ruleVars, fileVars>>

\* Lines 400-407: the sleep is over and the test of line 403 holds, a rescan
\* begins.  (When the test fails the iteration changes nothing.)
BeginRescan ==
  /\ loop = "sleeping"
  /\ pending_rescan /\ since_scan >= watchArgs.debounce
  /\ loop' = "scanning"
  /\ unseen' = FALSE
  /\ UNCHANGED <<scanVars, watchArgs, pending_rescan, since_scan, observer,
                 ruleVars, fileVars>>

\* Line 409: the scan.
Rescan ==
  /\ loop = "scanning"
  /\ WatchScan("scanned")
  /\ UNCHANGED <<root, disk, nEdits, watchArgs, pending_rescan, since_scan, observer,
                 unseen, ruleVars, fileVars>>

\* Lines 416-417: pending_rescan = False, last_scan_time = time.time().
EndRescan ==
  /\ loop = "scanned"
  /\ pending_rescan' = FALSE
  /\ since_scan' = 0
  /\ loop' = "sleeping"
  /\ UNCHANGED <<scanVars, watchArgs, observer, unseen, ruleVars, fileVars>>

WatchInit ==
  /\ watchArgs \in WatchArgs
  /\ loop = "start"
  /\ pending_rescan = FALSE
  /\ since_scan = 0
  /\ observer = <<>>
  /\ unseen = FALSE

InitWatch == ScanInit /\ RulesIdle /\ FileIdle /\ WatchInit

NextWatch ==
  \/ InitialScan
  \/ \E p \in ProjectPaths, s \in Sources \cup {Absent} : ChangeFile(p, s)
  \/ ChangeOther
  \/ Deliver
  \/ Tick
  \/ BeginRescan
  \/ Rescan
  \/ EndRescan

\* The call of scan_directory made in the loop state at returns or raises:
\* the steps InitialScan and Rescan, seen on loop alone.
ScanReturns(at) == loop = at /\ loop' \in {"sleeping", "scanned", "raised"}

\* Both threads keep running, every scan comes to its end, and time passes.
\* A change of a file is the user's and has no fairness: none need follow.
WatchFairness ==
  /\ WF_loop(ScanReturns("start"))
  /\ WF_vars(Deliver)
  /\ WF_vars(Tick)
  /\ WF_vars(BeginRescan)
  /\ WF_loop(ScanReturns("scanning"))
  /\ WF_vars(EndRescan)

SpecWatch == InitWatch /\ [][NextWatch]_vars /\ WatchFairness

(***************************************************************************)
(* Claims about the scanner, checked under Spec.                           *)
(***************************************************************************)
PathSeq(files) == [i \in 1..Len(files) |-> files[i].path]
SeqToSet(seq) == {seq[i] : i \in 1..Len(seq)}
RecordsFor(files, p) == {files[i] : i \in {j \in 1..Len(files) : files[j].path = p}}
\* The record a fresh scan of p gives in the run.
FreshRecord(run, p) ==
  IF run.deep
  THEN [scan_file(p, run.tree) EXCEPT !.deep = deep_analysis(p, run.tree)]
  ELSE scan_file(p, run.tree)
InvalidSyntax(run, p) == run.tree[p] # Absent /\ ~SourceTable[run.tree[p]].valid
Completed(run) == run.done /\ ~run.raised

\* C1: every run that returns an index returns exactly one record per
\* discovered file, in discovery order: none dropped, none twice.
C1_OneRecordPerDiscoveredFile ==
  Completed(lastRun) => PathSeq(lastRun.files) = lastRun.discovered

\* C2: two successive incremental scans through the entry point with the same
\* output path, nothing touched between them and no callback raising: a file
\* indexed by the first and unmodified is skipped (not scanned) by the second
\* and has the same record in both written indexes.
C2_SecondScanReusesUnmodified ==
  [][(/\ nScans' = nScans + 1
      /\ Completed(lastRun) /\ Completed(lastRun')
      /\ lastRun.incremental /\ lastRun'.incremental
      /\ lastRun.output = lastRun'.output
      /\ lastRun.progress_callback.raises = {}
      /\ lastRun'.progress_callback.raises = {}
      /\ lastRun.output = "code_index.json" => indexFile = ValidIndex(lastRun.files))
     => \A p \in Paths :
          (/\ lastRun.tree[p] = lastRun'.tree[p]
           /\ p \in PathsOf(lastRun.files))
          => /\ p \in SeqToSet(lastRun'.skipped)
             /\ p \notin SeqToSet(lastRun'.scanned)
             /\ RecordsFor(lastRun'.files, p) = RecordsFor(lastRun.files, p)]_vars

\* C3: in an incremental run, a file the change cache reports unchanged (the
\* cache is asked once the progress callback has returned) whose path the
\* previous index does not hold is scanned with scan_file and its record is
\* in files, once.
C3_UnchangedButUnindexedIsRescanned ==
  (Completed(lastRun) /\ lastRun.incremental) =>
    \A p \in SeqToSet(lastRun.discovered) :
      (/\ p \notin lastRun.progress_callback.raises
       /\ is_unchanged(lastRun.cache0, p, lastRun.tree)
       /\ p \notin lastRun.existing0)
      => /\ p \in SeqToSet(lastRun.scanned)
         /\ p \notin SeqToSet(lastRun.skipped)
         /\ RecordsFor(lastRun.files, p) = {FreshRecord(lastRun, p)}
         /\ Cardinality({i \in 1..Len(lastRun.files) : lastRun.files[i].path = p}) = 1

\* A run in which the cache reported a file unchanged, the previous index
\* did not hold it, and the file was scanned.
C3_Witness ==
  /\ Completed(lastRun) /\ lastRun.incremental
  /\ \E p \in SeqToSet(lastRun.discovered) :
       /\ p \notin lastRun.progress_callback.raises
       /\ is_unchanged(lastRun.cache0, p, lastRun.tree)
       /\ p \notin lastRun.existing0
       /\ p \in SeqToSet(lastRun.scanned)

\* C4: an incremental run with no previous index reuses nothing, scans every
\* discovered file and records a fingerprint for every discovered file.
C4_NoIndexScansAndFingerprintsAll ==
  (Completed(lastRun) /\ lastRun.incremental /\ lastRun.index0 = "missing") =>
    /\ lastRun.skipped = <<>>
    /\ lastRun.scanned = lastRun.discovered
    /\ lastRun.updated = SeqToSet(lastRun.discovered)
    /\ \A p \in SeqToSet(lastRun.discovered) : lastRun.cache[p] = lastRun.tree[p]

\* C5: an incremental run that finds an unreadable or invalid previous index
\* does not raise, reuses nothing and (no callback raising) scans every file.
C5_InvalidIndexIsColdStart ==
  (lastRun.done /\ lastRun.incremental /\ lastRun.index0 \in InvalidKinds) =>
    /\ ~lastRun.raised
    /\ lastRun.skipped = <<>>
    /\ lastRun.progress_callback.raises = {} => lastRun.scanned = lastRun.discovered

\* C6: a run over a tree with a file of invalid syntax does not raise, every
\* record scan_file made of such a file has error set, no entities, no
\* complexity and all-zero raw metrics, and every discovered file has a record.
C6_SyntaxErrorRecordAndScanGoesOn ==
  (lastRun.done /\ \E p \in SeqToSet(lastRun.discovered) : InvalidSyntax(lastRun, p)) =>
    /\ ~lastRun.raised
    /\ \A p \in SeqToSet(lastRun.scanned) :
         InvalidSyntax(lastRun, p) =>
           \A r \in RecordsFor(lastRun.files, p) :
             /\ r.error # NoError
             /\ r.entities = <<>>
             /\ r.complexity = <<>>
             /\ r.raw = ZeroRaw
    /\ \A p \in SeqToSet(lastRun.discovered) : RecordsFor(lastRun.files, p) # {}

\* t resolves to the path b: b ends with t, dots replaced by "/", plus ".py",
\* or t is a substring of b.
TargetMatches(t, b) ==
  \/ EndsWith(Text(b), Replace(Text(t), ".", "/") \o Text(".py"))
  \/ IsSubstring(Text(t), Text(b))

\* C13: in the dependency graph of a returned index, for all record paths A
\* and B, A is in B's imported_by exactly when A's imports hold a target that
\* matches B.
C13_ImportedByIsTheMatches ==
  Completed(lastRun) =>
    LET deps == lastRun.index.dependencies
    IN \A a \in DOMAIN deps, b \in DOMAIN deps :
         (\E t \in SeqToSet(deps[a].imports) : TargetMatches(t, b))
           <=> a \in SeqToSet(deps[b].imported_by)

\* a.py imports pkg.mod, and pkg/mod.py is imported by a.py.
C13_Witness ==
  /\ Completed(lastRun)
  /\ {"a.py", "pkg/mod.py"} \subseteq DOMAIN lastRun.index.dependencies
  /\ "pkg.mod" \in SeqToSet(lastRun.index.dependencies["a.py"].imports)
  /\ "a.py" \in SeqToSet(lastRun.index.dependencies["pkg/mod.py"].imported_by)
  /\ "a.py" \notin SeqToSet(lastRun.index.dependencies["a.py"].imported_by)

\* The module names of the import and from-import statements of a syntax
\* tree, at any depth.
RECURSIVE ImportedModules(_)
ImportedModules(nodes) ==
  UNION {SeqToSet(nodes[i].names) \cup ImportedModules(nodes[i].body) :
           i \in 1..Len(nodes)}

\* The modules the source of a file of the scanned tree imports.
SourceImports(run, p) ==
  IF SourceTable[run.tree[p]].valid
  THEN ImportedModules(SourceTable[run.tree[p]].ast) ELSE {}

\* C14: in a returned index, the imports of the dependency entry of every
\* file record are the module names that the file's source imports, whatever
\* the root and the working directory.
C14_ImportsAreThoseOfTheSource ==
  Completed(lastRun) =>
    \A p \in PathsOf(lastRun.index.files) :
      SeqToSet(lastRun.index.dependencies[p].imports) = SourceImports(lastRun, p)

Later(x, y) == x[1] > y[1] \/ (x[1] = y[1] /\ x[2] > y[2])

\* C15: the symbol index of a returned index has exactly the names of the
\* entities of its file records, and maps each name to path:lineno of the
\* last entity of that name, files taken in their order and entities in
\* extraction order; a name declared in two files maps into the later file.
C15_SymbolIndexLastWins ==
  Completed(lastRun) =>
    LET files == lastRun.index.files
        symbol_index == lastRun.index.symbol_index
        positions == UNION {{<<i, j>> : j \in 1..Len(files[i].entities)} :
                              i \in 1..Len(files)}
        NameAt(x) == files[x[1]].entities[x[2]].name
    IN /\ DOMAIN symbol_index = {NameAt(x) : x \in positions}
       /\ \A x \in positions :
            (\A y \in positions : NameAt(y) = NameAt(x) => ~Later(y, x))
              => symbol_index[NameAt(x)] =
                   Location(files[x[1]].path, files[x[1]].entities[x[2]].lineno)

\* Both files declare foo; foo maps into pkg/mod.py, the later file.
C15_Witness ==
  /\ Completed(lastRun)
  /\ PathSeq(lastRun.index.files) = <<"a.py", "pkg/mod.py">>
  /\ \E j \in 1..Len(lastRun.index.files[1].entities) :
       lastRun.index.files[1].entities[j].name = "foo"
  /\ \E j \in 1..Len(lastRun.index.files[2].entities) :
       /\ lastRun.index.files[2].entities[j].name = "foo"
       /\ lastRun.index.symbol_index["foo"] =
            Location("pkg/mod.py", lastRun.index.files[2].entities[j].lineno)

\* C17: a completed incremental run saves the cache once, as its last call
\* on the cache, right after the cleanup; every update_file comes before
\* them; and the store it leaves has no fingerprint for a path that is no
\* longer under the root.  A run that is not incremental never saves.
C17_CacheSavedOnceAtEnd ==
  (lastRun.done /\ ~lastRun.raised) =>
    LET ops == lastRun.ops
        n == Len(ops)
    IN IF lastRun.incremental
       THEN /\ n >= 2
            /\ ops[n] = CacheOp("save", "")
            /\ ops[n - 1] = CacheOp("cleanup", "")
            /\ \A i \in 1..(n - 2) : ops[i].op = "update_file"
            /\ {ops[i].path : i \in 1..(n - 2)} = lastRun.updated
            /\ Cardinality({i \in 1..n : ops[i].op = "save"}) = 1
            /\ fcache = lastRun.cache
            /\ \A p \in Paths :
                 lastRun.tree[p] = Absent => lastRun.cache[p] = NoFingerprint
       ELSE ops = <<>> /\ fcache = lastRun.cache0

\* An incremental run that scanned a file and pruned the fingerprint of a
\* file deleted since the run before.
C17_Witness ==
  /\ Completed(lastRun) /\ lastRun.incremental
  /\ lastRun.scanned # <<>>
  /\ \E p \in Paths :
       /\ lastRun.cache0[p] # NoFingerprint
       /\ lastRun.tree[p] = Absent
       /\ lastRun.cache[p] = NoFingerprint

\* The names of the components of a path below the root.
PathNames(p) ==
  CASE p = "a.py" -> {"a.py"}
    [] p = "pkg/mod.py" -> {"pkg", "mod.py"}
    [] p = ".venv/x.py" -> {".venv", "x.py"}

\* C18: a run discovers exactly the .py files under the root that have no
\* ignore-directory name among the components of their path below the root,
\* whatever the directories above the root are called.
C18_WalkerIgnoresBelowRootOnly ==
  lastRun.done =>
    SeqToSet(lastRun.discovered) =
      {p \in Paths : /\ lastRun.tree[p] # Absent
                     /\ PathNames(p) \cap ignore_patterns = {}}

\* C20: every index a run returns, whatever runs came before it, is
\* consistent with its own files: total_files is their number, the keys of
\* dependencies are their paths, every imported_by path is one of their
\* paths, and every symbol_index value is path:lineno of an entity of one of
\* them.
C20_IndexIsSelfConsistent ==
  Completed(lastRun) =>
    LET index == lastRun.index
        paths == PathsOf(index.files)
    IN /\ index.files = lastRun.files
       /\ index.total_files = Len(index.files)
       /\ DOMAIN index.dependencies = paths
       /\ \A p \in DOMAIN index.dependencies :
            SeqToSet(index.dependencies[p].imported_by) \subseteq paths
       /\ \A name \in DOMAIN index.symbol_index :
            \E i \in 1..Len(index.files) :
              \E j \in 1..Len(index.files[i].entities) :
                /\ index.files[i].entities[j].name = name
                /\ index.symbol_index[name] =
                     Location(index.files[i].path, index.files[i].entities[j].lineno)

\* The second of two runs, incremental, that reused a record and returned an
\* index with two files, an imported_by entry and a symbol.
C20_Witness ==
  /\ Completed(lastRun) /\ lastRun.incremental /\ nScans = 2
  /\ lastRun.skipped # <<>>
  /\ lastRun.index.total_files = 2
  /\ \E p \in DOMAIN lastRun.index.dependencies :
       lastRun.index.dependencies[p].imported_by # <<>>
  /\ DOMAIN lastRun.index.symbol_index # {}

\* C23: every file record of the index a run with deep = True returns has a
\* deep block, the records reused from the previous index included.
C23_DeepRunGivesEveryRecordADeepBlock ==
  (Completed(lastRun) /\ lastRun.deep) =>
    \A i \in 1..Len(lastRun.index.files) :
      lastRun.index.files[i].deep # NoDeep

(***************************************************************************)
(* Claims about scan_file, checked under SpecFile.                        *)
(***************************************************************************)
\* The class and function definitions at the top level of a syntax tree.
TopLevelDefs(tree) ==
  SelectSeq(tree, LAMBDA n : n.type \in {"class", "function", "async_function"})

\* C16: the entities of a scanned file are its top-level classes and
\* functions, one entity each and in their order: a method or a nested
\* function is no entity.
C16_OnlyTopLevelEntities ==
  fileScan.done =>
    LET entities == fileScan.data.entities
        top == TopLevelDefs(source.ast)
    IN /\ Len(entities) = Len(top)
       /\ \A i \in 1..Len(entities) :
            /\ entities[i].type = top[i].type
            /\ entities[i].name = top[i].name
            /\ entities[i].lineno = top[i].lineno

\* C19: the comment_ratio of a record scan_file makes, in thousandths: within
\* half a thousandth of comments / loc when loc > 0, between 0 and 1, and 0
\* when loc is 0 and in every error record.
C19_CommentRatioRounded ==
  fileScan.done =>
    LET r == fileScan.data
        Abs(x) == IF x < 0 THEN 0 - x ELSE x
    IN /\ r.comment_ratio \in 0..1000
       /\ r.raw.loc > 0 =>
            2 * Abs(r.comment_ratio * r.raw.loc - 1000 * r.raw.comments) <= r.raw.loc
       /\ r.raw.loc = 0 => r.comment_ratio = 0
       /\ r.error # NoError => (r.raw.loc = 0 /\ r.comment_ratio = 0)
       /\ source.valid => r.raw = source.raw

\* 2 comment lines in 3 lines give 0.667.
C19_Witness ==
  /\ fileScan.done
  /\ source.valid /\ source.raw.loc = 3 /\ source.raw.comments = 2
  /\ fileScan.data.comment_ratio = 667

\* The directories a path goes through.
Segments(path) ==
  LET parts == Components(Text(path), <<>>)
  IN {parts[i] : i \in 1..(Len(parts) - 1)}

\* C22: has_tests of a record scan_file makes is true only when a file other
\* than the scanned one exists at the test-convention path (the path with
\* "src/" replaced by "tests/test_"); a file with no src segment in its path
\* and no test file next to it has has_tests false.
C22_HasTestsNeedsAnotherFile ==
  fileScan.done =>
    /\ fileScan.data.has_tests =>
         \E f \in otherFiles \ {scanPath} : Text(f) = TestPaths[scanPath]
    /\ (<<"s", "r", "c">> \notin Segments(scanPath) /\ otherFiles = {}) =>
         ~fileScan.data.has_tests

(***************************************************************************)
(* Claims about the watch loop, checked under SpecWatch.                   *)
(***************************************************************************)
\* C21: every .py change event the observer thread delivers is followed by a
\* rescan that begins after the delivery, an event delivered during a rescan
\* included.
C21_EveryEventIsFollowedByARescan == unseen ~> ~unseen

(***************************************************************************)
(* Claims about the rule engine, checked under SpecRules.                  *)
(***************************************************************************)
Evaluated == evalResult.state # "idle"
Returned == evalResult.state = "returned"
TheMetrics == Get(config, "metrics", NoMetrics)
TheActions == Get(config, "actions", <<>>)
ConditionOf(i) == Get(TheActions[i], "condition", MalformedCondition)
\* entry i is a rule and the loop gets to it
ReachedRule(i) == \A j \in 1..i : IsMapping(TheActions[j])
ConditionRaises(i) == ConditionValue(ConditionOf(i), file_data, TheMetrics).t = "raised"
ConditionHolds(i) ==
  LET v == ConditionValue(ConditionOf(i), file_data, TheMetrics)
  IN v.t # "raised" /\ Truthy(v)

\* C7: a rule whose condition raises when evaluated is treated as not
\* triggered: no violation is added for it, evaluate does not raise at it,
\* and the next entry of the list is evaluated.
C7_ConditionErrorMeansNotTriggered ==
  Evaluated =>
    /\ Len(evalResult.issues) =
         Cardinality({i \in 1..Len(evalResult.trace) : evalResult.trace[i] = "violation"})
    /\ \A i \in 1..Len(TheActions) :
         (ReachedRule(i) /\ ConditionRaises(i)) =>
           /\ Len(evalResult.trace) >= i
           /\ evalResult.trace[i] = "no_violation"
           /\ i < Len(TheActions) => Len(evalResult.trace) > i

\* A rule whose condition raises, followed by a rule that triggers.
C7_Witness ==
  /\ Returned
  /\ \E i \in 1..Len(TheActions) :
       /\ ReachedRule(i) /\ ConditionRaises(i)
       /\ i < Len(TheActions)
       /\ evalResult.trace[i + 1] = "violation"

RECURSIVE UsesMoreThanBoundNames(_)
UsesMoreThanBoundNames(e) ==
  \/ e.k \in {"attr", "call"}
  \/ e.k = "name" /\ e.id \notin BoundNames
  \/ "l" \in DOMAIN e /\ UsesMoreThanBoundNames(e.l)
  \/ "r" \in DOMAIN e /\ UsesMoreThanBoundNames(e.r)

\* C8: a condition that uses a name other than the six bound ones, an
\* attribute access or a call never gives a triggered rule.
C8_OnlyBoundNamesTrigger ==
  Evaluated =>
    \A i \in 1..Len(evalResult.trace) :
      (IsMapping(TheActions[i]) /\ UsesMoreThanBoundNames(ConditionOf(i)))
        => evalResult.trace[i] # "violation"

\* C9: when evaluate returns, its list holds one violation per triggered
\* rule and nothing else, the k-th violation being that of the k-th triggered
\* rule in the order of the actions list, with the rule's id, message and
\* action and the file's path.
C9_OneViolationPerTriggeredRuleInOrder ==
  Returned =>
    LET triggered == {i \in 1..Len(TheActions) : ConditionHolds(i)}
    IN /\ Len(evalResult.issues) = Cardinality(triggered)
       /\ \A i \in triggered :
            LET v == evalResult.issues[Cardinality({j \in triggered : j <= i})]
            IN /\ v.id = Get(TheActions[i], "id", "UNKNOWN")
               /\ v.message = Get(TheActions[i], "message", "")
               /\ v.action = Get(TheActions[i], "action", "")
               /\ v.file = file_data.path

\* Two rules with different ids both trigger.
C9_Witness ==
  /\ Returned
  /\ Len(evalResult.issues) = 2
  /\ evalResult.issues[1].id # evalResult.issues[2].id

C10Config == [metrics |-> [max_complexity |-> Num(10, 1)], actions |-> <<RuleComplexity>>]

\* C10: with the single rule complexity > max_complexity and max_complexity
\* = 10, the result is exactly one violation, of that rule, when the mean of
\* the file's complexity values is greater than 10 (sum > 10 * count), and no
\* violation otherwise; so one for a mean of 12 and none for a mean of 8.
C10_ComplexityRuleIsStrictlyGreater ==
  (Evaluated /\ config = C10Config) =>
    LET values == file_data.complexity
        total == SumComplexity(values)
        count == Len(values)
    IN /\ Returned
       /\ IF count > 0 /\ total > 10 * count
          THEN evalResult.issues =
                 <<[id |-> "R1", message |-> "msg R1", action |-> "do R1",
                    file |-> file_data.path]>>
          ELSE evalResult.issues = <<>>
       /\ (count > 0 /\ total = 12 * count) => Len(evalResult.issues) = 1
       /\ (count > 0 /\ total = 8 * count) => Len(evalResult.issues) = 0

\* The rule checked against a file whose two values have the mean 12.
C10_Witness ==
  /\ Returned /\ config = C10Config
  /\ Len(file_data.complexity) = 2
  /\ SumComplexity(file_data.complexity) = 24
  /\ Len(evalResult.issues) = 1

\* The threshold a config gives for a name, or the fallback constant.
ThresholdOf(name, fallback) ==
  IF name \in DOMAIN TheMetrics THEN TheMetrics[name] ELSE fallback

C12_EvaluateNeverRaises ==
  Evaluated => evalResult.state = "returned"

====
